---- MODULE Spec2Model ----
(***************************************************************************)
(* Nydus support of the build cache: the per-layer artifact cache          *)
(* (buildLayer.GetCache / buildLayer.SetCache) and the chain merge         *)
(* pipeline (mergeNydus).                                                  *)
(***************************************************************************)
EXTENDS Integers, Sequences, FiniteSets, TLC

(***************************************************************************)
(* Bounds of the model.                                                    *)
(***************************************************************************)
\* SetCache calls made on the layer in one behaviour.
MaxCalls == 2
\* Longest layer chain handed to mergeNydus and to computeNydusBlobChain.
MaxChain == 2
\* Most descriptors p.Build returns to computeNydusBlobChain.
MaxDescs == 3

(***************************************************************************)
(* Program constants.                                                      *)
(***************************************************************************)
keyCachedNydusBootstrap == "cache.nydus-bootstrap"
keyCachedNydusBlob == "cache.nydus-blob"
valueCachedEmptySha256 == "sha256:none"

\* compression.Type values used by the cache.
NydusBootstrap == "nydus-bootstrap"
NydusBlob == "nydus-blob"
Gzip == "gzip"

\* Errors. Nil is Go's nil error; ErrNotFound is errdefs.ErrNotFound;
\* ErrStore is a low-level content-store failure (I/O, lease, metadata).
\* An error is the chain of its messages, outermost first.
Nil == <<>>
ErrNotFound == <<"not found">>
ErrStore == <<"store failure">>
ErrInvalidDigest == <<"invalid checksum digest format">>

\* errors.Wrap(err, msg): the message in front of the cause.
Wrap(err, msg) == <<msg>> \o err

\* errors.Cause(err): the innermost error of the chain.
Cause(err) == IF err = Nil THEN Nil ELSE <<err[Len(err)]>>

(***************************************************************************)
(* Values the cache works on: digests of artifacts a build can produce for *)
(* the layer, and the descriptors that carry them.                         *)
(***************************************************************************)
BootstrapDigests == {"sha256:b1", "sha256:b2"}
BlobDigests == {"sha256:x1", "sha256:x2"}
OtherDigests == {"sha256:g1"}
Digests == BootstrapDigests \cup BlobDigests \cup OtherDigests

\* The compression type a descriptor's media type and annotations denote.
TypeOf(d) ==
  IF d \in BootstrapDigests THEN NydusBootstrap
  ELSE IF d \in BlobDigests THEN NydusBlob
  ELSE Gzip

Desc(d) == [Digest |-> d, Compression |-> TypeOf(d)]

NoDesc == [Digest |-> "", Compression |-> ""]

\* blobDescs arguments of SetCache: no blob, one blob, two blobs.
BlobLists ==
  {<<>>, <<Desc("sha256:x1")>>, <<Desc("sha256:x2"), Desc("sha256:x1")>>}

\* digest.Digest.Validate: nil only for a well-formed "<algorithm>:<hex>"
\* string; the empty string and "sha256:none" are not well-formed.
Validate(dgst) == IF dgst \in Digests THEN Nil ELSE ErrInvalidDigest

VARIABLES
  content,   \* digests present in the content store
  sr,        \* the layer's immutableRef: primary blob, variant links, metadata
  nset,      \* number of SetCache calls made so far
  setCall,   \* the last SetCache call: arguments, injected fault, result
  writer,    \* for each metadata key, the SetCache call that last wrote it
  getCall    \* the last GetCache call: injected faults, result

cacheVars == <<content, sr, nset, setCall, writer, getCall>>

VARIABLES
  store,     \* content store the merge commits to: the committed blobs
  mpc,       \* position of each mergeNydus call
  after,     \* the calls that had returned when each call was made
  refs,      \* argument refs of each call
  idx,       \* index of the ref the loop of lines 58-76 is at
  blobDesc,  \* local blobDesc of the loop body
  layers,    \* local layers
  blobIDs,   \* local blobIDs
  readers,   \* the readers each call opened, in order: "open" or "closed"
  gpc,       \* position of the goroutine of lines 80-87
  gi,        \* chunks the goroutine's Merge has written
  staleRead, \* Merge read from a reader that was already closed
  pipe,      \* the io.Pipe: the pending write and how the write end closed
  cw,        \* the content-store writer: its state and the bytes written
  hashed,    \* what uncompressedDgst.Hash() has consumed
  commitErr, \* local err of the Commit of line 108
  ret,       \* what each call returned
  cancelled  \* ctx of each call: ctx.Done() is closed

mergeVars ==
  <<store, mpc, after, refs, idx, blobDesc, layers, blobIDs, readers, gpc,
    gi, staleRead, pipe, cw, hashed, commitErr, ret, cancelled>>

VARIABLES
  cpc,         \* position of the computeNydusBlobChain call
  chainLayers, \* local layers: the buildLayer of each layer walked
  builder,     \* local builder: the BuilderPath given to packer.New
  descs,       \* local descs: what p.Build returned
  chainIdx,    \* idx of the loop of lines 147-160
  extraDescs,  \* local extraDescs
  chainRet     \* what the call returned

chainVars ==
  <<cpc, chainLayers, builder, descs, chainIdx, extraDescs, chainRet>>

vars == <<cacheVars, mergeVars, chainVars>>

(***************************************************************************)
(* immutableRef operations the cache calls.                                *)
(***************************************************************************)
\* sr.GetString(key)
GetString(r, key) == r.md[key]

\* sr.SetString(key, value, "")
SetString(r, key, value) == [r EXCEPT !.md[key] = value]

\* sr.setBlob(ctx, desc): registers desc as the layer's primary blob when the
\* primary slot is free; a layer that has a primary blob keeps it.
\* fault: the content store fails during the step.
setBlob(r, cs, desc, fault) ==
  IF fault THEN [sr |-> r, err |-> ErrStore]
  ELSE IF desc.Digest \notin cs THEN [sr |-> r, err |-> ErrNotFound]
  ELSE IF r.blob # "" THEN [sr |-> r, err |-> Nil]
  ELSE [sr |-> [r EXCEPT !.blob = desc.Digest], err |-> Nil]

\* sr.linkBlob(ctx, desc): links desc to the layer's primary blob as the
\* variant of desc's compression type.
linkBlob(r, cs, desc, fault) ==
  IF fault THEN [sr |-> r, err |-> ErrStore]
  ELSE IF r.blob = "" \/ r.blob \notin cs \/ desc.Digest \notin cs
    THEN [sr |-> r, err |-> ErrNotFound]
  ELSE [sr |-> [r EXCEPT !.variants[desc.Compression] = desc.Digest],
        err |-> Nil]

\* sr.getBlobWithCompression(ctx, compressionType): the primary blob when it
\* is of that compression type, else the variant linked under that type.
getBlobWithCompression(r, cs, compressionType, fault) ==
  IF fault THEN [desc |-> NoDesc, err |-> ErrStore]
  ELSE IF r.blob = "" \/ r.blob \notin cs
    THEN [desc |-> NoDesc, err |-> ErrNotFound]
  ELSE IF TypeOf(r.blob) = compressionType
    THEN [desc |-> Desc(r.blob), err |-> Nil]
  ELSE IF r.variants[compressionType] # ""
          /\ r.variants[compressionType] \in cs
    THEN [desc |-> Desc(r.variants[compressionType]), err |-> Nil]
  ELSE [desc |-> NoDesc, err |-> ErrNotFound]

(***************************************************************************)
(* buildLayer.getArtifact                                                  *)
(***************************************************************************)
getArtifact(r, cs, dgst, compressionType, fault) ==
  IF Validate(dgst) # Nil THEN [desc |-> NoDesc, err |-> ErrNotFound]
  ELSE LET a == getBlobWithCompression(r, cs, compressionType, fault) IN
    IF a.err # Nil THEN [desc |-> NoDesc, err |-> ErrNotFound]
    ELSE [desc |-> a.desc, err |-> Nil]

(***************************************************************************)
(* buildLayer.GetCache. f1, f2: the content store fails while the          *)
(* bootstrap, respectively the blob, is looked up.                         *)
(***************************************************************************)
Miss == [bootstrap |-> NoDesc, blobs |-> <<>>, err |-> ErrNotFound]

\* GetCache taking an unset blob property for the sentinel.
GetCacheUnsetAsEmpty(r, cs, f1, f2) ==
  LET b == getArtifact(r, cs, GetString(r, keyCachedNydusBootstrap),
                       NydusBootstrap, f1)
      cachedBlob == GetString(r, keyCachedNydusBlob)
  IN IF b.err # Nil THEN Miss
     ELSE IF cachedBlob = "" \/ cachedBlob = valueCachedEmptySha256
       THEN [bootstrap |-> b.desc, blobs |-> <<>>, err |-> Nil]
     ELSE LET x == getArtifact(r, cs, cachedBlob, NydusBlob, f2) IN
       IF x.err # Nil THEN Miss
       ELSE [bootstrap |-> b.desc, blobs |-> <<x.desc>>, err |-> Nil]

\* GetCache without the sentinel case of lines 64-66.
GetCacheNoSentinel(r, cs, f1, f2) ==
  LET b == getArtifact(r, cs, GetString(r, keyCachedNydusBootstrap),
                       NydusBootstrap, f1)
      cachedBlob == GetString(r, keyCachedNydusBlob)
  IN IF b.err # Nil THEN Miss
     ELSE IF cachedBlob = "" THEN Miss
     ELSE LET x == getArtifact(r, cs, cachedBlob, NydusBlob, f2) IN
       IF x.err # Nil THEN Miss
       ELSE [bootstrap |-> b.desc, blobs |-> <<x.desc>>, err |-> Nil]

GetCache(r, cs, f1, f2) ==
  LET b == getArtifact(r, cs, GetString(r, keyCachedNydusBootstrap),
                       NydusBootstrap, f1)
      cachedBlob == GetString(r, keyCachedNydusBlob)
  IN IF b.err # Nil THEN Miss
     ELSE IF cachedBlob = "" THEN Miss
     ELSE IF cachedBlob = valueCachedEmptySha256
       THEN [bootstrap |-> b.desc, blobs |-> <<>>, err |-> Nil]
     ELSE LET x == getArtifact(r, cs, cachedBlob, NydusBlob, f2) IN
       IF x.err # Nil THEN Miss
       ELSE [bootstrap |-> b.desc, blobs |-> <<x.desc>>, err |-> Nil]

(***************************************************************************)
(* buildLayer.SetCache. fault: the step the content store fails at         *)
(* (1 setBlob, 2 linkBlob of the bootstrap, 3 linkBlob of the blob), 0 for *)
(* none. The result carries the layer after the call, the error returned,  *)
(* the line of the return statement and the metadata keys written.         *)
(***************************************************************************)
\* SetCache recording the bootstrap digest before the bootstrap is linked.
SetCacheRecordsFirst(r, cs, bootstrapDesc, blobDescs, fault) ==
  LET s1 == setBlob(r, cs, bootstrapDesc, fault = 1) IN
  IF s1.err # Nil
    THEN [sr |-> s1.sr, err |-> Wrap(s1.err, "set nydus bootstrap"),
          line |-> 80, wrote |-> {}]
  ELSE LET r2 == SetString(s1.sr, keyCachedNydusBootstrap,
                           bootstrapDesc.Digest)
           s2 == linkBlob(r2, cs, bootstrapDesc, fault = 2) IN
  IF s2.err # Nil
    THEN [sr |-> s2.sr, err |-> Wrap(s2.err, "set nydus blob"),
          line |-> 84, wrote |-> {keyCachedNydusBootstrap}]
  ELSE IF Len(blobDescs) > 0
    THEN LET s4 == linkBlob(s2.sr, cs, blobDescs[1], fault = 3) IN
      IF s4.err # Nil
        THEN [sr |-> s4.sr, err |-> Wrap(s4.err, "set nydus blob"),
              line |-> 91, wrote |-> {keyCachedNydusBootstrap}]
      ELSE [sr |-> SetString(s4.sr, keyCachedNydusBlob, blobDescs[1].Digest),
            err |-> Nil, line |-> 98,
            wrote |-> {keyCachedNydusBootstrap, keyCachedNydusBlob}]
  ELSE [sr |-> SetString(s2.sr, keyCachedNydusBlob, valueCachedEmptySha256),
        err |-> Nil, line |-> 98,
        wrote |-> {keyCachedNydusBootstrap, keyCachedNydusBlob}]

SetCache(r, cs, bootstrapDesc, blobDescs, fault) ==
  LET s1 == setBlob(r, cs, bootstrapDesc, fault = 1) IN
  IF s1.err # Nil
    THEN [sr |-> s1.sr, err |-> Wrap(s1.err, "set nydus bootstrap"),
          line |-> 80, wrote |-> {}]
  ELSE LET s2 == linkBlob(s1.sr, cs, bootstrapDesc, fault = 2) IN
  IF s2.err # Nil
    THEN [sr |-> s2.sr, err |-> Wrap(s2.err, "set nydus blob"),
          line |-> 84, wrote |-> {}]
  ELSE LET r3 == SetString(s2.sr, keyCachedNydusBootstrap,
                           bootstrapDesc.Digest) IN
  IF Len(blobDescs) > 0
    THEN LET s4 == linkBlob(r3, cs, blobDescs[1], fault = 3) IN
      IF s4.err # Nil
        THEN [sr |-> s4.sr, err |-> Wrap(s4.err, "set nydus blob"),
              line |-> 91, wrote |-> {keyCachedNydusBootstrap}]
      ELSE [sr |-> SetString(s4.sr, keyCachedNydusBlob, blobDescs[1].Digest),
            err |-> Nil, line |-> 98,
            wrote |-> {keyCachedNydusBootstrap, keyCachedNydusBlob}]
  ELSE [sr |-> SetString(r3, keyCachedNydusBlob, valueCachedEmptySha256),
        err |-> Nil, line |-> 98,
        wrote |-> {keyCachedNydusBootstrap, keyCachedNydusBlob}]

(***************************************************************************)
(* State after construction: an empty content store and a layer with no    *)
(* blob, no variant link and no cached property.                           *)
(***************************************************************************)
NoSetCall ==
  [id |-> 0, bootstrap |-> NoDesc, blobs |-> <<>>, fault |-> 0,
   err |-> Nil, line |-> 0]

NoGetCall == [f1 |-> FALSE, f2 |-> FALSE, res |-> Miss, done |-> FALSE]

CacheInit ==
  /\ content = {}
  /\ sr = [blob |-> "",
           variants |-> [t \in {NydusBootstrap, NydusBlob} |-> ""],
           md |-> [k \in {keyCachedNydusBootstrap, keyCachedNydusBlob} |-> ""]]
  /\ nset = 0
  /\ setCall = NoSetCall
  /\ writer = [k \in {keyCachedNydusBootstrap, keyCachedNydusBlob} |-> 0]
  /\ getCall = NoGetCall

(***************************************************************************)
(* Actions of the cache.                                                   *)
(***************************************************************************)
\* An artifact is written to the content store (by the builder, or by the
\* export of the layer under another compression).
Ingest ==
  \E d \in Digests :
    /\ d \notin content
    /\ content' = content \cup {d}
    /\ UNCHANGED <<sr, nset, setCall, writer, getCall, mergeVars, chainVars>>

\* The layer's blob is computed under another compression type before nydus
\* touches the layer: it takes the primary slot.
SetOtherBlob ==
  \E d \in OtherDigests :
    /\ sr.blob = ""
    /\ d \in content
    /\ sr' = setBlob(sr, content, Desc(d), FALSE).sr
    /\ UNCHANGED <<content, nset, setCall, writer, getCall, mergeVars,
                   chainVars>>

DoSetCache ==
  \E b \in BootstrapDigests, xs \in BlobLists, fault \in 0..3 :
    /\ nset < MaxCalls
    /\ LET res == SetCache(sr, content, Desc(b), xs, fault) IN
       /\ sr' = res.sr
       /\ nset' = nset + 1
       /\ setCall' = [id |-> nset + 1, bootstrap |-> Desc(b), blobs |-> xs,
                      fault |-> fault, err |-> res.err, line |-> res.line]
       /\ writer' = [k \in DOMAIN writer |->
                       IF k \in res.wrote THEN nset + 1 ELSE writer[k]]
    /\ UNCHANGED <<content, getCall, mergeVars, chainVars>>

DoGetCache ==
  \E f1 \in BOOLEAN, f2 \in BOOLEAN :
    /\ getCall' = [f1 |-> f1, f2 |-> f2,
                   res |-> GetCache(sr, content, f1, f2), done |-> TRUE]
    /\ UNCHANGED <<content, sr, nset, setCall, writer, mergeVars, chainVars>>

CacheNext == Ingest \/ SetOtherBlob \/ DoSetCache \/ DoGetCache

(***************************************************************************)
(* mergeNydus: values.                                                     *)
(***************************************************************************)
\* The calls of mergeNydus that may run concurrently.
Procs == {"m1", "m2"}

ErrEmptyRefs == <<"refs can't be empty">>
ErrMerge == <<"merge failure">>
ErrClosed == <<"file already closed">>
ErrAlreadyExists == <<"already exists">>

\* errdefs.IsAlreadyExists(err)
IsAlreadyExists(err) == Cause(err) = ErrAlreadyExists

\* The chain of layers that ends at layer k, ancestors first; the chain's
\* identity is that of its terminal layer.
Chain(k) == [i \in 1..k |-> i]

getChainID(ref) == ref

\* digest.Digest of a layer's blob, and Digest.Hex(): the digest without its
\* algorithm prefix.
LayerDigest(ref) == [alg |-> "sha256", hex |-> ref]

Hex(dgst) == dgst.hex

\* A layer whose data blob is empty (a metadata-only layer).
EmptyBlobLayer(ref) == ref = 2

NoBlobDesc == [Digest |-> [alg |-> "", hex |-> 0], Empty |-> FALSE]

\* getBlobWithCompressionWithRetry(ctx, ref, comp, s): the descriptor of the
\* layer's blob, or the error left when the retries are used up.
getBlobWithCompressionWithRetry(ref, fault) ==
  IF fault THEN [desc |-> NoBlobDesc, err |-> ErrStore]
  ELSE [desc |-> [Digest |-> LayerDigest(ref), Empty |-> EmptyBlobLayer(ref)],
        err |-> Nil]

\* nydusify.Merge with WithTar: the tar stream of the merged bootstrap, one
\* chunk per layer in the order of the layers given.
MergeStream(ls) ==
  [i \in 1..Len(ls) |-> [kind |-> "tar", layer |-> Hex(ls[i].Digest)]]

\* gzip.Writer: the header goes out with the first write, every chunk is
\* deflated, Close appends the trailer.
GzipHeader == [kind |-> "gzip-header", layer |-> 0]
GzipTrailer == [kind |-> "gzip-trailer", layer |-> 0]
Deflate(chunk) == [kind |-> "deflate", layer |-> chunk.layer]

GzipWrite(written, chunk) ==
  (IF written = <<>> THEN <<GzipHeader>> ELSE <<>>) \o <<Deflate(chunk)>>

GzipClose(written) ==
  (IF written = <<>> THEN <<GzipHeader>> ELSE <<>>) \o <<GzipTrailer>>

\* digest.SHA256 of a byte sequence.
DigestOf(data) == [alg |-> "sha256", of |-> data]

NoDigest == [alg |-> "", of |-> <<>>]

\* json.Marshal of a []string.
Marshal(ids) == [json |-> "array", items |-> ids]

MediaTypeImageLayerGzip == "application/vnd.oci.image.layer.v1.tar+gzip"

\* The *ocispecs.Descriptor returned; NoDescriptor is nil.
NoDescriptor ==
  [Digest |-> NoDigest, Size |-> 0, MediaType |-> "",
   Uncompressed |-> NoDigest, NydusBootstrapAnno |-> "",
   NydusBlobIDs |-> Marshal(<<>>)]

NoPipe == [buf |-> <<>>, closed |-> "none", err |-> Nil]

NoWriter == [state |-> "none", ref |-> 0, data |-> <<>>]

MergeInit ==
  /\ store = {}
  /\ mpc = [p \in Procs |-> "idle"]
  /\ after = [p \in Procs |-> {}]
  /\ refs = [p \in Procs |-> <<>>]
  /\ idx = [p \in Procs |-> 0]
  /\ blobDesc = [p \in Procs |-> NoBlobDesc]
  /\ layers = [p \in Procs |-> <<>>]
  /\ blobIDs = [p \in Procs |-> <<>>]
  /\ readers = [p \in Procs |-> <<>>]
  /\ gpc = [p \in Procs |-> "off"]
  /\ gi = [p \in Procs |-> 0]
  /\ staleRead = [p \in Procs |-> FALSE]
  /\ pipe = [p \in Procs |-> NoPipe]
  /\ cw = [p \in Procs |-> NoWriter]
  /\ hashed = [p \in Procs |-> <<>>]
  /\ commitErr = [p \in Procs |-> Nil]
  /\ ret = [p \in Procs |-> [desc |-> NoDescriptor, err |-> Nil, line |-> 0]]
  /\ cancelled = [p \in Procs |-> FALSE]

\* The outcomes of an operation that is given the call's ctx: it may fail on
\* its own, and it returns an error once ctx is cancelled.
CtxFaults(p) == IF cancelled[p] THEN {TRUE} ELSE BOOLEAN

(***************************************************************************)
(* mergeNydus: the calling goroutine.                                      *)
(***************************************************************************)
\* Return without the deferred ra.Close() of line 67.
ReturnLeavesReaders(p, desc, err, line) ==
  /\ mpc' = [mpc EXCEPT ![p] = "done"]
  /\ ret' = [ret EXCEPT ![p] = [desc |-> desc, err |-> err, line |-> line]]
  /\ readers' = readers
  /\ cw' = [cw EXCEPT ![p].state =
              IF cw[p].state = "none" THEN "none" ELSE "closed"]

\* A return statement: the result, then the deferred cw.Close() of line 95
\* and the deferred ra.Close() of line 67 of every reader opened.
Return(p, desc, err, line) ==
  /\ mpc' = [mpc EXCEPT ![p] = "done"]
  /\ ret' = [ret EXCEPT ![p] = [desc |-> desc, err |-> err, line |-> line]]
  /\ readers' = [readers EXCEPT ![p] = [i \in DOMAIN readers[p] |-> "closed"]]
  /\ cw' = [cw EXCEPT ![p].state =
              IF cw[p].state = "none" THEN "none" ELSE "closed"]

\* MergeCall without the check of line 50.
MergeCallNoCheck(p) ==
  /\ mpc[p] = "idle"
  /\ \E k \in 0..MaxChain :
       /\ refs' = [refs EXCEPT ![p] = Chain(k)]
       /\ after' = [after EXCEPT ![p] = {q \in Procs : mpc[q] = "done"}]
       /\ mpc' = [mpc EXCEPT ![p] = IF k = 0 THEN "pipe" ELSE "getblob"]
       /\ idx' = [idx EXCEPT ![p] = 1]
  /\ UNCHANGED <<cacheVars, chainVars, cancelled, store, blobDesc, layers,
                 blobIDs, gpc, gi, staleRead, pipe, hashed, commitErr, ret,
                 readers, cw>>

\* Lines 49-52: the call and the check of the argument.
MergeCall(p) ==
  /\ mpc[p] = "idle"
  /\ \E k \in 0..MaxChain :
       /\ refs' = [refs EXCEPT ![p] = Chain(k)]
       /\ after' = [after EXCEPT ![p] = {q \in Procs : mpc[q] = "done"}]
       /\ IF k = 0
            THEN /\ Return(p, NoDescriptor, ErrEmptyRefs, 51)
                 /\ UNCHANGED idx
            ELSE /\ mpc' = [mpc EXCEPT ![p] = "getblob"]
                 /\ idx' = [idx EXCEPT ![p] = 1]
                 /\ UNCHANGED <<ret, readers, cw>>
  /\ UNCHANGED <<cacheVars, chainVars, cancelled, store, blobDesc, layers,
                 blobIDs, gpc, gi, staleRead, pipe, hashed, commitErr>>

\* Lines 58-62: the blob of the next ref.
GetBlob(p) ==
  /\ mpc[p] = "getblob"
  /\ \E fault \in CtxFaults(p) :
       LET r == getBlobWithCompressionWithRetry(refs[p][idx[p]], fault) IN
       IF r.err # Nil
         THEN /\ Return(p, NoDescriptor,
                        Wrap(r.err, "get compression blob"), 61)
              /\ UNCHANGED blobDesc
         ELSE /\ blobDesc' = [blobDesc EXCEPT ![p] = r.desc]
              /\ mpc' = [mpc EXCEPT ![p] = "reader"]
              /\ UNCHANGED <<ret, readers, cw>>
  /\ UNCHANGED <<cacheVars, chainVars, cancelled, store, after, refs, idx,
                 layers, blobIDs, gpc, gi, staleRead, pipe, hashed, commitErr>>

\* OpenReader leaving a layer with an empty blob out of blobIDs.
OpenReaderSkipsEmpty(p) ==
  /\ mpc[p] = "reader"
  /\ \E fault \in CtxFaults(p) :
       IF fault
         THEN /\ Return(p, NoDescriptor,
                        Wrap(ErrStore, "get reader for compression blob"), 65)
              /\ UNCHANGED <<idx, layers, blobIDs>>
         ELSE /\ readers' = [readers EXCEPT ![p] = Append(@, "open")]
              /\ blobIDs' = [blobIDs EXCEPT
                               ![p] = IF blobDesc[p].Empty THEN @
                                      ELSE Append(@, Hex(blobDesc[p].Digest))]
              /\ layers' = [layers EXCEPT
                   ![p] = Append(@, [Digest |-> blobDesc[p].Digest,
                                     ReaderAt |-> Len(readers[p]) + 1])]
              /\ idx' = [idx EXCEPT ![p] = @ + 1]
              /\ mpc' = [mpc EXCEPT ![p] =
                           IF idx[p] = Len(refs[p]) THEN "pipe" ELSE "getblob"]
              /\ UNCHANGED <<ret, cw>>
  /\ UNCHANGED <<cacheVars, chainVars, cancelled, store, after, refs, blobDesc,
                 gpc, gi, staleRead, pipe, hashed, commitErr>>

\* Lines 63-76: the reader of the blob, its deferred Close, and the appends
\* to blobIDs and layers; then the next ref, or line 78 after the last.
OpenReader(p) ==
  /\ mpc[p] = "reader"
  /\ \E fault \in CtxFaults(p) :
       IF fault
         THEN /\ Return(p, NoDescriptor,
                        Wrap(ErrStore, "get reader for compression blob"), 65)
              /\ UNCHANGED <<idx, layers, blobIDs>>
         ELSE /\ readers' = [readers EXCEPT ![p] = Append(@, "open")]
              /\ blobIDs' = [blobIDs EXCEPT
                               ![p] = Append(@, Hex(blobDesc[p].Digest))]
              /\ layers' = [layers EXCEPT
                   ![p] = Append(@, [Digest |-> blobDesc[p].Digest,
                                     ReaderAt |-> Len(readers[p]) + 1])]
              /\ idx' = [idx EXCEPT ![p] = @ + 1]
              /\ mpc' = [mpc EXCEPT ![p] =
                           IF idx[p] = Len(refs[p]) THEN "pipe" ELSE "getblob"]
              /\ UNCHANGED <<ret, cw>>
  /\ UNCHANGED <<cacheVars, chainVars, cancelled, store, after, refs, blobDesc,
                 gpc, gi, staleRead, pipe, hashed, commitErr>>

\* Lines 79-87: io.Pipe() and the go statement.
StartMerge(p) ==
  /\ mpc[p] = "pipe"
  /\ pipe' = [pipe EXCEPT
               ![p] = [buf |-> <<>>, closed |-> "open", err |-> Nil]]
  /\ gpc' = [gpc EXCEPT ![p] = "read"]
  /\ mpc' = [mpc EXCEPT ![p] = "open"]
  /\ UNCHANGED <<cacheVars, chainVars, cancelled, store, after, refs, idx,
                 blobDesc, layers, blobIDs, readers, gi, staleRead, cw, hashed,
                 commitErr, ret>>

\* Lines 90-95: the content-store writer under the ref of the chain.
OpenWriter(p) ==
  /\ mpc[p] = "open"
  /\ \E fault \in CtxFaults(p) :
       IF fault
         THEN Return(p, NoDescriptor,
                     Wrap(ErrStore, "open content store writer"), 93)
         ELSE /\ cw' = [cw EXCEPT ![p] =
                          [state |-> "open",
                           ref |-> getChainID(refs[p][Len(refs[p])]),
                           data |-> <<>>]]
              /\ mpc' = [mpc EXCEPT ![p] = "copy"]
              /\ UNCHANGED <<ret, readers>>
  /\ UNCHANGED <<cacheVars, chainVars, cancelled, store, after, refs, idx,
                 blobDesc, layers, blobIDs, gpc, gi, staleRead, pipe, hashed,
                 commitErr>>

\* CopyChunk with the hash behind the gzip writer: it is fed the compressed
\* chunk.
CopyChunkHashesCompressed(p) ==
  /\ mpc[p] = "copy"
  /\ pipe[p].buf # <<>>
  /\ pipe' = [pipe EXCEPT ![p].buf = <<>>]
  /\ \E fault \in BOOLEAN :
       IF fault
         THEN /\ Return(p, NoDescriptor,
                        Wrap(ErrStore,
                             "copy bootstrap targz into content store"), 101)
              /\ UNCHANGED hashed
         ELSE /\ cw' = [cw EXCEPT
                          ![p].data = @ \o GzipWrite(@, pipe[p].buf[1])]
              /\ hashed' = [hashed EXCEPT
                              ![p] = Append(@, Deflate(pipe[p].buf[1]))]
              /\ UNCHANGED <<mpc, ret, readers>>
  /\ UNCHANGED <<cacheVars, chainVars, cancelled, store, after, refs, idx,
                 blobDesc, layers, blobIDs, gpc, gi, staleRead, commitErr>>

\* Lines 97-102, io.Copy: a chunk read from the pipe is written to the gzip
\* writer, which writes to cw, and then to the hash; a failed write ends the
\* copy.
CopyChunk(p) ==
  /\ mpc[p] = "copy"
  /\ pipe[p].buf # <<>>
  /\ pipe' = [pipe EXCEPT ![p].buf = <<>>]
  /\ \E fault \in BOOLEAN :
       IF fault
         THEN /\ Return(p, NoDescriptor,
                        Wrap(ErrStore,
                             "copy bootstrap targz into content store"), 101)
              /\ UNCHANGED hashed
         ELSE /\ cw' = [cw EXCEPT
                          ![p].data = @ \o GzipWrite(@, pipe[p].buf[1])]
              /\ hashed' = [hashed EXCEPT ![p] = Append(@, pipe[p].buf[1])]
              /\ UNCHANGED <<mpc, ret, readers>>
  /\ UNCHANGED <<cacheVars, chainVars, cancelled, store, after, refs, idx,
                 blobDesc, layers, blobIDs, gpc, gi, staleRead, commitErr>>

\* io.Copy: the write end was closed without an error, the read says EOF.
CopyEOF(p) ==
  /\ mpc[p] = "copy"
  /\ pipe[p].buf = <<>>
  /\ pipe[p].closed = "eof"
  /\ mpc' = [mpc EXCEPT ![p] = "gzclose"]
  /\ UNCHANGED <<cacheVars, chainVars, cancelled, store, after, refs, idx,
                 blobDesc, layers, blobIDs, readers, gpc, gi, staleRead, pipe,
                 cw, hashed, commitErr, ret>>

\* io.Copy: the write end was closed with an error, the read returns it.
CopyErr(p) ==
  /\ mpc[p] = "copy"
  /\ pipe[p].buf = <<>>
  /\ pipe[p].closed = "err"
  /\ Return(p, NoDescriptor,
            Wrap(pipe[p].err, "copy bootstrap targz into content store"), 101)
  /\ UNCHANGED <<cacheVars, chainVars, cancelled, store, after, refs, idx,
                 blobDesc, layers, blobIDs, gpc, gi, staleRead, pipe, hashed,
                 commitErr>>

\* CloseGzip going on to the commit when gw.Close failed.
CloseGzipIgnoresError(p) ==
  /\ mpc[p] = "gzclose"
  /\ \E fault \in BOOLEAN :
       /\ cw' = [cw EXCEPT ![p].data = IF fault THEN @ ELSE @ \o GzipClose(@)]
       /\ mpc' = [mpc EXCEPT ![p] = "commit"]
       /\ UNCHANGED <<ret, readers>>
  /\ UNCHANGED <<cacheVars, chainVars, cancelled, store, after, refs, idx,
                 blobDesc, layers, blobIDs, gpc, gi, staleRead, pipe, hashed,
                 commitErr>>

\* Lines 103-105: gw.Close().
CloseGzip(p) ==
  /\ mpc[p] = "gzclose"
  /\ \E fault \in BOOLEAN :
       IF fault
         THEN Return(p, NoDescriptor, Wrap(ErrStore, "close gzip writer"), 104)
         ELSE /\ cw' = [cw EXCEPT ![p].data = @ \o GzipClose(@)]
              /\ mpc' = [mpc EXCEPT ![p] = "commit"]
              /\ UNCHANGED <<ret, readers>>
  /\ UNCHANGED <<cacheVars, chainVars, cancelled, store, after, refs, idx,
                 blobDesc, layers, blobIDs, gpc, gi, staleRead, pipe, hashed,
                 commitErr>>

\* cw.Commit(ctx, 0, expected, labels) on the content store: the error, and
\* the store after it.
StoreCommit(st, data, expected, labels, fault) ==
  IF fault THEN [store |-> st, err |-> ErrStore]
  ELSE IF \E b \in st : b.digest = expected
    THEN [store |-> st, err |-> ErrAlreadyExists]
  ELSE [store |-> st \cup {[digest |-> expected, size |-> Len(data),
                            labels |-> labels]},
        err |-> Nil]

\* Commit returning every error of cw.Commit, "already exists" included.
CommitReturnsAlreadyExists(p) ==
  /\ mpc[p] = "commit"
  /\ \E fault \in CtxFaults(p) :
       LET compressedDgst == DigestOf(cw[p].data)
           c == StoreCommit(store, cw[p].data, compressedDgst,
                            [uncompressed |-> DigestOf(hashed[p])], fault)
       IN /\ store' = c.store
          /\ commitErr' = [commitErr EXCEPT ![p] = c.err]
          /\ IF c.err # Nil
               THEN Return(p, NoDescriptor,
                           Wrap(c.err, "commit to content store"), 112)
               ELSE /\ mpc' = [mpc EXCEPT ![p] = "close"]
                    /\ cw' = [cw EXCEPT ![p].state = "committed"]
                    /\ UNCHANGED <<ret, readers>>
  /\ UNCHANGED <<cacheVars, chainVars, cancelled, after, refs, idx, blobDesc,
                 layers, blobIDs, gpc, gi, staleRead, pipe, hashed>>

\* Lines 107-114: cw.Digest() and cw.Commit; an error that is not
\* "already exists" is returned.
Commit(p) ==
  /\ mpc[p] = "commit"
  /\ \E fault \in CtxFaults(p) :
       LET compressedDgst == DigestOf(cw[p].data)
           c == StoreCommit(store, cw[p].data, compressedDgst,
                            [uncompressed |-> DigestOf(hashed[p])], fault)
       IN /\ store' = c.store
          /\ commitErr' = [commitErr EXCEPT ![p] = c.err]
          /\ IF c.err # Nil /\ ~IsAlreadyExists(c.err)
               THEN Return(p, NoDescriptor,
                           Wrap(c.err, "commit to content store"), 112)
               ELSE /\ mpc' = [mpc EXCEPT ![p] = "close"]
                    /\ cw' = [cw EXCEPT ![p].state = "committed"]
                    /\ UNCHANGED <<ret, readers>>
  /\ UNCHANGED <<cacheVars, chainVars, cancelled, after, refs, idx, blobDesc,
                 layers, blobIDs, gpc, gi, staleRead, pipe, hashed>>

\* Lines 115-117: cw.Close().
CloseWriter(p) ==
  /\ mpc[p] = "close"
  /\ \E fault \in BOOLEAN :
       IF fault
         THEN Return(p, NoDescriptor,
                     Wrap(ErrStore, "close content store writer"), 116)
         ELSE /\ cw' = [cw EXCEPT ![p].state = "closed"]
              /\ mpc' = [mpc EXCEPT ![p] = "info"]
              /\ UNCHANGED <<ret, readers>>
  /\ UNCHANGED <<cacheVars, chainVars, cancelled, store, after, refs, idx,
                 blobDesc, layers, blobIDs, gpc, gi, staleRead, pipe, hashed,
                 commitErr>>

\* cm.ContentStore.Info(ctx, dgst)
StoreInfo(st, dgst, fault) ==
  IF fault THEN [size |-> 0, err |-> ErrStore]
  ELSE IF \E b \in st : b.digest = dgst
    THEN [size |-> (CHOOSE b \in st : b.digest = dgst).size, err |-> Nil]
  ELSE [size |-> 0, err |-> ErrNotFound]

\* Describe going on to the descriptor when Info failed.
DescribeIgnoresInfoErr(p) ==
  /\ mpc[p] = "info"
  /\ \E fault \in CtxFaults(p) :
       LET compressedDgst == DigestOf(cw[p].data)
           info == StoreInfo(store, compressedDgst, fault)
       IN Return(p,
                 [Digest |-> compressedDgst,
                  Size |-> info.size,
                  MediaType |-> MediaTypeImageLayerGzip,
                  Uncompressed |-> DigestOf(hashed[p]),
                  NydusBootstrapAnno |-> "true",
                  NydusBlobIDs |-> Marshal(blobIDs[p])],
                 Nil, 142)
  /\ UNCHANGED <<cacheVars, chainVars, cancelled, store, after, refs, idx,
                 blobDesc, layers, blobIDs, gpc, gi, staleRead, pipe, hashed,
                 commitErr>>

\* Lines 119-142: the size from the store, the marshalled blob IDs and the
\* descriptor returned.
Describe(p) ==
  /\ mpc[p] = "info"
  /\ \E fault \in CtxFaults(p) :
       LET compressedDgst == DigestOf(cw[p].data)
           info == StoreInfo(store, compressedDgst, fault)
       IN IF info.err # Nil
            THEN Return(p, NoDescriptor,
                        Wrap(info.err, "get info from content store"), 121)
            ELSE Return(p,
                        [Digest |-> compressedDgst,
                         Size |-> info.size,
                         MediaType |-> MediaTypeImageLayerGzip,
                         Uncompressed |-> DigestOf(hashed[p]),
                         NydusBootstrapAnno |-> "true",
                         NydusBlobIDs |-> Marshal(blobIDs[p])],
                        Nil, 142)
  /\ UNCHANGED <<cacheVars, chainVars, cancelled, store, after, refs, idx,
                 blobDesc, layers, blobIDs, gpc, gi, staleRead, pipe, hashed,
                 commitErr>>

(***************************************************************************)
(* mergeNydus: the goroutine of lines 80-87 running nydusify.Merge.        *)
(***************************************************************************)
\* CloseWithError dropping the error: the write end closes as by Close().
CloseWithErrorDropsError(pp, err) ==
  IF pp.closed = "open" THEN [pp EXCEPT !.closed = "eof"] ELSE pp

\* pw.CloseWithError(err): the first close of the write end decides.
CloseWithError(pp, err) ==
  IF pp.closed = "open" THEN [pp EXCEPT !.closed = "err", !.err = err] ELSE pp

\* pw.Close()
ClosePipeWriter(pp) ==
  IF pp.closed = "open" THEN [pp EXCEPT !.closed = "eof"] ELSE pp

\* Merge unpacks the bootstrap of the next layer from its ReaderAt; a failure
\* (line 85) closes the pipe with the error and the goroutine ends.
MergeRead(p) ==
  /\ gpc[p] = "read"
  /\ gi[p] < Len(layers[p])
  /\ LET ra == layers[p][gi[p] + 1].ReaderAt IN
     IF readers[p][ra] = "closed"
       THEN /\ staleRead' = [staleRead EXCEPT ![p] = TRUE]
            /\ pipe' = [pipe EXCEPT ![p] =
                 CloseWithError(@, Wrap(ErrClosed, "merge nydus bootstrap"))]
            /\ gpc' = [gpc EXCEPT ![p] = "exit"]
            /\ UNCHANGED gi
       ELSE \E fault \in CtxFaults(p) :
              IF fault
                THEN /\ pipe' = [pipe EXCEPT ![p] =
                          CloseWithError(@, Wrap(ErrMerge,
                                                 "merge nydus bootstrap"))]
                     /\ gpc' = [gpc EXCEPT ![p] = "exit"]
                     /\ UNCHANGED <<gi, staleRead>>
                ELSE /\ gi' = [gi EXCEPT ![p] =
                                 IF @ + 1 = Len(layers[p]) THEN 0 ELSE @ + 1]
                     /\ gpc' = [gpc EXCEPT ![p] =
                                  IF gi[p] + 1 = Len(layers[p])
                                    THEN "merge" ELSE "read"]
                     /\ UNCHANGED <<pipe, staleRead>>
  /\ UNCHANGED <<cacheVars, chainVars, cancelled, store, mpc, after, refs, idx,
                 blobDesc, layers, blobIDs, readers, cw, hashed, commitErr,
                 ret>>

\* MergeWrite on a pipe that buffers: the write returns without waiting for
\* the reader.
MergeWriteBuffered(p) ==
  /\ gpc[p] = "merge"
  /\ gi[p] < Len(layers[p])
  /\ \E fault \in BOOLEAN :
       IF fault
         THEN /\ pipe' = [pipe EXCEPT ![p] =
                   CloseWithError(@, Wrap(ErrMerge, "merge nydus bootstrap"))]
              /\ gpc' = [gpc EXCEPT ![p] = "exit"]
              /\ UNCHANGED gi
         ELSE /\ pipe' = [pipe EXCEPT
                   ![p].buf = Append(@, MergeStream(layers[p])[gi[p] + 1])]
              /\ gi' = [gi EXCEPT ![p] = @ + 1]
              /\ UNCHANGED gpc
  /\ UNCHANGED <<cacheVars, chainVars, cancelled, store, mpc, after, refs,
                 idx, blobDesc, layers, blobIDs, readers, staleRead, cw,
                 hashed, commitErr, ret>>

\* Merge writes the next chunk of the merged stream to pw and blocks in the
\* write; a failure closes the pipe with the error.
MergeWrite(p) ==
  /\ gpc[p] = "merge"
  /\ gi[p] < Len(layers[p])
  /\ \E fault \in BOOLEAN :
       IF fault
         THEN /\ pipe' = [pipe EXCEPT ![p] =
                   CloseWithError(@, Wrap(ErrMerge, "merge nydus bootstrap"))]
              /\ gpc' = [gpc EXCEPT ![p] = "exit"]
         ELSE /\ pipe' = [pipe EXCEPT
                            ![p].buf = <<MergeStream(layers[p])[gi[p] + 1]>>]
              /\ gpc' = [gpc EXCEPT ![p] = "write"]
  /\ UNCHANGED <<cacheVars, chainVars, cancelled, store, mpc, after, refs, idx,
                 blobDesc, layers, blobIDs, readers, gi, staleRead, cw, hashed,
                 commitErr, ret>>

\* The reader took the chunk: pw.Write returns.
MergeWriteDone(p) ==
  /\ gpc[p] = "write"
  /\ pipe[p].buf = <<>>
  /\ gi' = [gi EXCEPT ![p] = @ + 1]
  /\ gpc' = [gpc EXCEPT ![p] = "merge"]
  /\ UNCHANGED <<cacheVars, chainVars, cancelled, store, mpc, after, refs, idx,
                 blobDesc, layers, blobIDs, readers, staleRead, pipe, cw,
                 hashed, commitErr, ret>>

\* Merge returned nil: the deferred pw.Close() of line 81.
MergeReturn(p) ==
  /\ gpc[p] = "merge"
  /\ gi[p] = Len(layers[p])
  /\ pipe' = [pipe EXCEPT ![p] = ClosePipeWriter(@)]
  /\ gpc' = [gpc EXCEPT ![p] = "exit"]
  /\ UNCHANGED <<cacheVars, chainVars, cancelled, store, mpc, after, refs, idx,
                 blobDesc, layers, blobIDs, readers, gi, staleRead, cw, hashed,
                 commitErr, ret>>

(***************************************************************************)
(* Cancellation of the ctx a call was given, while the call runs.          *)
(***************************************************************************)
Cancel(p) ==
  /\ mpc[p] \notin {"idle", "done"}
  /\ ~cancelled[p]
  /\ cancelled' = [cancelled EXCEPT ![p] = TRUE]
  /\ UNCHANGED <<cacheVars, chainVars, store, mpc, after, refs, idx, blobDesc,
                 layers, blobIDs, readers, gpc, gi, staleRead, pipe, cw,
                 hashed, commitErr, ret>>

MergeNext ==
  \E p \in Procs :
    \/ MergeCall(p)
    \/ GetBlob(p)
    \/ OpenReader(p)
    \/ StartMerge(p)
    \/ OpenWriter(p)
    \/ CopyChunk(p)
    \/ CopyEOF(p)
    \/ CopyErr(p)
    \/ CloseGzip(p)
    \/ Commit(p)
    \/ CloseWriter(p)
    \/ Describe(p)
    \/ MergeRead(p)
    \/ MergeWrite(p)
    \/ MergeWriteDone(p)
    \/ MergeReturn(p)

(***************************************************************************)
(* computeNydusBlobChain                                                   *)
(***************************************************************************)
ErrPacker == <<"packer failure">>
ErrBuild == <<"builder failure">>

\* The packer.Descriptor p.Build makes for the layer at position k of the
\* chain: its bootstrap, and its blob, nil when the layer has no data.
PackerBootstrap(k) == [kind |-> "bootstrap", layer |-> k]
PackerBlob(k) == [kind |-> "blob", layer |-> k]
NilBlob == [kind |-> "nil", layer |-> 0]

PackerDescs(m) ==
  {ds \in [1..m -> [Blob : {NilBlob} \cup {PackerBlob(k) : k \in 1..m},
                    Bootstrap : {PackerBootstrap(k) : k \in 1..m}]] :
     \A k \in 1..m : /\ ds[k].Bootstrap = PackerBootstrap(k)
                     /\ ds[k].Blob \in {NilBlob, PackerBlob(k)}}

NoChainRet == [descs |-> <<>>, err |-> Nil, line |-> 0]

ChainInit ==
  /\ cpc = "idle"
  /\ chainLayers = <<>>
  /\ builder = ""
  /\ descs = <<>>
  /\ chainIdx = 0
  /\ extraDescs = <<>>
  /\ chainRet = NoChainRet

\* Lines 118-132: the walk of the layer chain of sr, ancestors first, and the
\* builder path from NYDUS_BUILDER.
LayerWalk ==
  /\ cpc = "idle"
  /\ \E n \in 1..MaxChain, env \in {"", "/opt/nydus-image"} :
       /\ chainLayers' = Chain(n)
       /\ builder' = IF env = "" THEN "nydus-image" ELSE env
  /\ cpc' = "new"
  /\ UNCHANGED <<cacheVars, mergeVars, descs, chainIdx, extraDescs, chainRet>>

\* Lines 133-139: packer.New.
NewPacker ==
  /\ cpc = "new"
  /\ \E fault \in BOOLEAN :
       IF fault
         THEN /\ cpc' = "done"
              /\ chainRet' = [descs |-> <<>>,
                              err |-> Wrap(ErrPacker, "create nydus packer"),
                              line |-> 138]
         ELSE /\ cpc' = "build"
              /\ UNCHANGED chainRet
  /\ UNCHANGED <<cacheVars, mergeVars, chainLayers, builder, descs, chainIdx,
                 extraDescs>>

\* Lines 141-146: p.Build and the empty extraDescs.
Build ==
  /\ cpc = "build"
  /\ \/ /\ cpc' = "done"
        /\ chainRet' = [descs |-> <<>>,
                        err |-> Wrap(ErrBuild, "build nydus layers"),
                        line |-> 143]
        /\ UNCHANGED <<descs, chainIdx, extraDescs>>
     \/ /\ \E m \in 0..MaxDescs : \E ds \in PackerDescs(m) : descs' = ds
        /\ extraDescs' = <<>>
        /\ chainIdx' = 0
        /\ cpc' = "loop"
        /\ UNCHANGED chainRet
  /\ UNCHANGED <<cacheVars, mergeVars, chainLayers, builder>>

\* Lines 147-160: one round of the loop over descs; the index is Go's,
\* counted from 0.
ChainLoop ==
  /\ cpc = "loop"
  /\ chainIdx < Len(descs)
  /\ LET desc == descs[chainIdx + 1] IN
     extraDescs' = IF chainIdx = Len(chainLayers) - 1
                     THEN Append(extraDescs, desc.Bootstrap)
                     ELSE extraDescs
  /\ chainIdx' = chainIdx + 1
  /\ UNCHANGED <<cacheVars, mergeVars, cpc, chainLayers, builder, descs,
                 chainRet>>

\* Line 162.
ChainReturn ==
  /\ cpc = "loop"
  /\ chainIdx = Len(descs)
  /\ cpc' = "done"
  /\ chainRet' = [descs |-> extraDescs, err |-> Nil, line |-> 162]
  /\ UNCHANGED <<cacheVars, mergeVars, chainLayers, builder, descs, chainIdx,
                 extraDescs>>

ChainNext == LayerWalk \/ NewPacker \/ Build \/ ChainLoop \/ ChainReturn

(***************************************************************************)
(* Specifications: the per-layer cache, and the merge pipeline.            *)
(***************************************************************************)
Init == CacheInit /\ MergeInit /\ ChainInit

Next == CacheNext

Spec == Init /\ [][Next]_vars

MergeSpec == Init /\ [][MergeNext]_vars

ChainSpec == Init /\ [][ChainNext]_vars

\* The merge pipeline with the ctx of a call cancelled under way.
LiveNext ==
  \/ MergeNext
  \/ \E p \in Procs : Cancel(p)

\* The steps of the goroutine that called mergeNydus, and of the goroutine
\* it started.
MainStep(p) ==
  \/ GetBlob(p) \/ OpenReader(p) \/ StartMerge(p) \/ OpenWriter(p)
  \/ CopyChunk(p) \/ CopyEOF(p) \/ CopyErr(p) \/ CloseGzip(p)
  \/ Commit(p) \/ CloseWriter(p) \/ Describe(p)

ProducerStep(p) ==
  MergeRead(p) \/ MergeWrite(p) \/ MergeWriteDone(p) \/ MergeReturn(p)

\* The Go scheduler runs every goroutine that is not blocked: a goroutine
\* that can take a step eventually takes one.
LiveSpec ==
  /\ Init
  /\ [][LiveNext]_vars
  /\ \A p \in Procs : WF_vars(MainStep(p)) /\ WF_vars(ProducerStep(p))

(***************************************************************************)
(* Per-layer cache: properties.                                            *)
(***************************************************************************)
\* What a lookup made now returns when the content store does not fail.
Lookup == GetCache(sr, content, FALSE, FALSE)

\* C1: after a successful store, a lookup on the layer returns found=true
\* with the bootstrap digest that was stored and, if a blob was stored, that
\* blob's digest, or an empty blob list if none was stored; also when the
\* layer already had a cache entry or another primary blob before the store.
C1_StoreThenLookup ==
  (setCall.id > 0 /\ setCall.err = Nil) =>
    /\ Lookup.err = Nil
    /\ Lookup.bootstrap.Digest = setCall.bootstrap.Digest
    /\ (Len(setCall.blobs) > 0 =>
          /\ Len(Lookup.blobs) = 1
          /\ Lookup.blobs[1].Digest = setCall.blobs[1].Digest)
    /\ (Len(setCall.blobs) = 0 => Lookup.blobs = <<>>)

\* C2: a lookup never returns a hit on a partially-cached layer: whenever a
\* lookup hits, the bootstrap property and the blob property it reads were
\* recorded by the same store call.
C2_NoPartialEntry ==
  \A f1 \in BOOLEAN, f2 \in BOOLEAN :
    GetCache(sr, content, f1, f2).err = Nil =>
      writer[keyCachedNydusBootstrap] = writer[keyCachedNydusBlob]

\* C3: whenever a lookup hits, the returned bootstrap descriptor's digest is
\* the recorded bootstrap digest, a returned blob descriptor's digest is the
\* recorded blob digest and that blob is in the content store, and with the
\* sentinel recorded no blob descriptor is returned.
C3_EntryConsistent ==
  \A f1 \in BOOLEAN, f2 \in BOOLEAN :
    LET g == GetCache(sr, content, f1, f2) IN
    g.err = Nil =>
      /\ g.bootstrap.Digest = GetString(sr, keyCachedNydusBootstrap)
      /\ \A i \in 1..Len(g.blobs) :
           /\ g.blobs[i].Digest = GetString(sr, keyCachedNydusBlob)
           /\ g.blobs[i].Digest \in content
      /\ (GetString(sr, keyCachedNydusBlob) = valueCachedEmptySha256 =>
            g.blobs = <<>>)

\* C4: a lookup returns either a hit or the one not-found signal, never a
\* store error; and it is the not-found signal whenever no bootstrap digest
\* is recorded, a recorded digest is not a valid digest, the content store
\* fails or cannot locate an artifact, or no blob entry is recorded.
C4_UniformMiss ==
  \A f1 \in BOOLEAN, f2 \in BOOLEAN :
    LET g == GetCache(sr, content, f1, f2)
        boot == GetString(sr, keyCachedNydusBootstrap)
        blob == GetString(sr, keyCachedNydusBlob)
    IN /\ g.err \in {Nil, ErrNotFound}
       /\ (g.err # Nil => g = Miss)
       /\ ( \/ boot = ""
            \/ Validate(boot) # Nil
            \/ getBlobWithCompression(sr, content, NydusBootstrap,
                                      f1).err # Nil
            \/ blob = ""
            \/ /\ blob # valueCachedEmptySha256
               /\ \/ Validate(blob) # Nil
                  \/ getBlobWithCompression(sr, content, NydusBlob,
                                            f2).err # Nil
          ) => g = Miss

\* C4 witness: a lookup during which the content store failed, on a layer
\* with both properties recorded, came back as the not-found signal.
C4_Witness ==
  /\ getCall.done /\ getCall.f1
  /\ getCall.res = Miss
  /\ GetString(sr, keyCachedNydusBootstrap) \in Digests
  /\ GetString(sr, keyCachedNydusBlob) \in Digests

\* C5: when the sentinel is the recorded blob value, a lookup (the content
\* store not failing on the bootstrap) returns found=true with the bootstrap
\* descriptor populated and an empty blob-descriptor list.
C5_SentinelHit ==
  GetString(sr, keyCachedNydusBlob) = valueCachedEmptySha256 =>
    \A f2 \in BOOLEAN :
      LET g == GetCache(sr, content, FALSE, f2) IN
      /\ g.err = Nil
      /\ g.bootstrap.Digest \in BootstrapDigests
      /\ g.bootstrap.Compression = NydusBootstrap
      /\ g.blobs = <<>>

\* C5 witness: a lookup on a layer with the sentinel recorded hit with no
\* blob descriptor.
C5_Witness ==
  /\ GetString(sr, keyCachedNydusBlob) = valueCachedEmptySha256
  /\ getCall.done /\ getCall.res.err = Nil /\ getCall.res.blobs = <<>>
  /\ getCall.res.bootstrap.Digest \in BootstrapDigests

\* C6: a store call whose setBlob, bootstrap linkBlob or blob linkBlob step
\* fails returns at that step with an error wrapping the cause, and performs
\* none of the later links and property writes.
C6_AbortAtFailedStep ==
  [][setCall'.id # setCall.id =>
      LET c == setCall' IN
      /\ (c.err = Nil) = (c.line = 98)
      /\ c.line \in {80, 84, 91, 98}
      /\ (c.fault = 1 => c.line = 80 /\ Cause(c.err) = ErrStore)
      /\ (c.fault = 2 /\ c.line # 80 =>
            c.line = 84 /\ Cause(c.err) = ErrStore)
      /\ (c.fault = 3 /\ c.line \notin {80, 84} /\ Len(c.blobs) > 0 =>
            c.line = 91 /\ Cause(c.err) = ErrStore)
      /\ (c.line = 80 =>
            /\ c.err[1] = "set nydus bootstrap"
            /\ sr' = sr /\ writer' = writer)
      /\ (c.line = 84 =>
            /\ c.err[1] = "set nydus blob"
            /\ sr'.variants = sr.variants /\ sr'.md = sr.md
            /\ writer' = writer)
      /\ (c.line = 91 =>
            /\ c.err[1] = "set nydus blob"
            /\ sr'.variants[NydusBlob] = sr.variants[NydusBlob]
            /\ sr'.md[keyCachedNydusBlob] = sr.md[keyCachedNydusBlob]
            /\ writer'[keyCachedNydusBlob] = writer[keyCachedNydusBlob])
  ]_vars

\* C6 witness: a store call failed at the link of its blob, after its
\* bootstrap had been linked and recorded.
C6_Witness ==
  /\ setCall.line = 91 /\ setCall.fault = 3
  /\ GetString(sr, keyCachedNydusBootstrap) = setCall.bootstrap.Digest

(***************************************************************************)
(* Chain merge pipeline: properties.                                       *)
(***************************************************************************)
\* The call has executed the Commit of line 108.
PastCommit(p) ==
  \/ mpc[p] \in {"close", "info"}
  \/ mpc[p] = "done" /\ ret[p].line \in {112, 116, 121, 142}

\* The blob a complete merge of the chain commits: the gzip of the whole
\* merged stream, labelled with the digest of the stream itself.
ChainStream(chain) ==
  [i \in 1..Len(chain) |->
     [kind |-> "tar", layer |-> Hex(LayerDigest(chain[i]))]]

ChainGzip(chain) ==
  <<GzipHeader>> \o [i \in 1..Len(chain) |-> Deflate(ChainStream(chain)[i])]
    \o <<GzipTrailer>>

ChainBlob(chain) ==
  [digest |-> DigestOf(ChainGzip(chain)),
   size |-> Len(ChainGzip(chain)),
   labels |-> [uncompressed |-> DigestOf(ChainStream(chain))]]

C8_MergeTwice ==
  \A p \in Procs, q \in Procs :
    (q \in after[p] /\ refs[p] = refs[q] /\ Len(refs[p]) >= 1
       /\ ret[q].line = 142)
      => /\ (PastCommit(p) /\ commitErr[p] # ErrStore)
              => /\ commitErr[p] = ErrAlreadyExists
                 /\ DigestOf(cw[p].data) = ret[q].desc.Digest
                 /\ ~(mpc[p] = "done" /\ ret[p].line = 112)
         /\ (mpc[p] = "done" /\ ret[p].line = 142)
              => ret[p].desc = ret[q].desc

\* C8 witness: the second of two merges of the same chain, run in sequence,
\* returned a descriptor after its commit met "already exists".
C8_Witness ==
  \E p \in Procs, q \in Procs :
    /\ q \in after[p] /\ refs[p] = refs[q] /\ Len(refs[p]) >= 1
    /\ ret[q].line = 142 /\ ret[p].line = 142
    /\ commitErr[p] = ErrAlreadyExists

\* C9: the descriptor of a successful merge records one blob ID per layer of
\* the chain, in chain order, the i-th being the hex digest of the i-th
\* layer's blob; and the layers given to Merge are the chain's layers in that
\* order, each with the reader opened for it, empty-blob layers included.
C9_BlobIDsInChainOrder ==
  \A p \in Procs :
    /\ ret[p].line = 142 =>
         LET ids == ret[p].desc.NydusBlobIDs IN
         /\ ids.json = "array"
         /\ Len(ids.items) = Len(refs[p])
         /\ \A i \in 1..Len(refs[p]) :
              ids.items[i] = Hex(LayerDigest(refs[p][i]))
    /\ gpc[p] # "off" =>
         /\ Len(layers[p]) = Len(refs[p])
         /\ \A i \in 1..Len(refs[p]) :
              /\ layers[p][i].Digest = LayerDigest(refs[p][i])
              /\ layers[p][i].ReaderAt = i

\* C9 witness: a merge of a chain of two or more layers, one of them with an
\* empty blob, returned its descriptor.
C9_Witness ==
  \E p \in Procs :
    /\ ret[p].line = 142
    /\ Len(refs[p]) >= 2
    /\ \E i \in 1..Len(refs[p]) : EmptyBlobLayer(refs[p][i])

\* C10: a call with zero layers returns at once with the error of line 51
\* and no descriptor; it opens no reader, starts no goroutine, makes no pipe,
\* opens no writer and commits nothing.
C10_EmptyChainRejected ==
  /\ [](\A p \in Procs :
          (mpc[p] # "idle" /\ refs[p] = <<>>) =>
            /\ mpc[p] = "done"
            /\ ret[p] = [desc |-> NoDescriptor, err |-> ErrEmptyRefs,
                         line |-> 51]
            /\ readers[p] = <<>> /\ layers[p] = <<>>
            /\ gpc[p] = "off" /\ pipe[p] = NoPipe
            /\ cw[p] = NoWriter /\ commitErr[p] = Nil)
  /\ [][\A p \in Procs :
          (mpc[p] = "idle" /\ mpc'[p] # "idle" /\ refs'[p] = <<>>)
            => store' = store]_vars

\* C10 witness: a call with zero layers has returned the error, while the
\* store holds what another call committed.
C10_Witness ==
  \E p \in Procs :
    /\ mpc[p] = "done" /\ refs[p] = <<>> /\ ret[p].err = ErrEmptyRefs
    /\ store # {}

\* C11: an error in the merge, the copy, the gzip close, the commit (other
\* than "already exists") or the info lookup aborts the call: a call that
\* failed returns no descriptor, and a call returns a descriptor only when
\* the store holds committed content of exactly that digest and size, the
\* complete merged artifact of its chain.
C11_DescriptorOnlyIfCommitted ==
  \A p \in Procs :
    mpc[p] = "done" =>
      /\ (ret[p].err # Nil) = (ret[p].desc = NoDescriptor)
      /\ (ret[p].err = Nil) = (ret[p].line = 142)
      /\ (commitErr[p] # Nil /\ ~IsAlreadyExists(commitErr[p]))
           => ret[p].line = 112
      /\ ret[p].desc # NoDescriptor =>
           /\ \E b \in store :
                /\ b.digest = ret[p].desc.Digest
                /\ b.size = ret[p].desc.Size
                /\ b = ChainBlob(refs[p])
           /\ ret[p].desc.Digest = DigestOf(cw[p].data)

\* C11 witness: a call whose content was committed failed at the info lookup
\* and returned no descriptor.
C11_Witness ==
  \E p \in Procs :
    /\ mpc[p] = "done" /\ ret[p].line = 121
    /\ ret[p].desc = NoDescriptor
    /\ \E b \in store : b.digest = DigestOf(cw[p].data)

\* C12: at return of mergeNydus, on the success path and on every failure
\* path, no reader the call opened is still open; until then every reader it
\* opened is open, one per layer resolved.
C12_ReadersReleased ==
  \A p \in Procs :
    /\ mpc[p] = "done" => \A i \in DOMAIN readers[p] : readers[p][i] = "closed"
    /\ mpc[p] # "done" => \A i \in DOMAIN readers[p] : readers[p][i] = "open"
    /\ Len(readers[p]) = Len(layers[p])

\* C12 witness: a call that had opened a reader failed resolving a later
\* layer, and another call returned its descriptor, each with readers opened.
C12_Witness ==
  \E p \in Procs, q \in Procs :
    /\ mpc[p] = "done" /\ ret[p].line = 61 /\ Len(readers[p]) >= 1
    /\ mpc[q] = "done" /\ ret[q].line = 142 /\ Len(readers[q]) >= 1

\* The goroutine ended because Merge returned an error: it ended before the
\* last chunk of the merged stream was written.
ProducerFailed(p) == gpc[p] = "exit" /\ gi[p] < Len(layers[p])

\* C13: when the merge producer fails, the pipe is closed with its wrapped
\* error; the consumer's read of the pipe then returns that error and not a
\* clean end of stream, mergeNydus returns it from line 101 with no
\* descriptor, and nothing is committed: a call that reached its commit had
\* consumed the whole merged stream.
C13_ProducerErrorPropagated ==
  /\ [](\A p \in Procs :
          /\ ProducerFailed(p) =>
               /\ pipe[p].closed = "err"
               /\ pipe[p].err[1] = "merge nydus bootstrap"
               /\ Cause(pipe[p].err) \in {ErrMerge, ErrClosed}
               /\ mpc[p] \notin {"gzclose", "commit", "close", "info"}
               /\ commitErr[p] = Nil
               /\ cw[p].state # "committed"
               /\ mpc[p] = "done" =>
                    ret[p].err # Nil /\ ret[p].desc = NoDescriptor
          /\ PastCommit(p) => hashed[p] = MergeStream(layers[p]))
  /\ [][\A p \in Procs :
          (ProducerFailed(p) /\ mpc[p] = "copy" /\ mpc'[p] # "copy") =>
            ret'[p] = [desc |-> NoDescriptor,
                       err |-> Wrap(pipe[p].err,
                                    "copy bootstrap targz into content store"),
                       line |-> 101]]_vars

\* C13 witness: the producer failed after the consumer had taken a chunk,
\* and mergeNydus returned the producer's error from the copy.
C13_Witness ==
  \E p \in Procs :
    /\ ProducerFailed(p) /\ Len(hashed[p]) >= 1
    /\ mpc[p] = "done" /\ ret[p].line = 101
    /\ Cause(ret[p].err) = ErrMerge
    /\ ret[p].err = Wrap(pipe[p].err,
                         "copy bootstrap targz into content store")

\* C14: once the ctx of a running call is cancelled, mergeNydus eventually
\* returns an error, and its producer does not stay blocked on the pipe: it
\* comes to its end.
C14_CancelUnblocks ==
  \A p \in Procs :
    cancelled[p] ~>
      (/\ mpc[p] = "done" /\ ret[p].err # Nil
       /\ gpc[p] \in {"off", "exit"})

(***************************************************************************)
(* Chain builder: properties.                                              *)
(***************************************************************************)
\* C15: on success the result of computeNydusBlobChain is exactly the
\* bootstrap descriptor of the final layer of the chain, with no intermediate
\* layer's bootstrap and no blob descriptor in it, for every chain length
\* and every number of descriptors the builder returns.
C15_OnlyFinalBootstrap ==
  (cpc = "done" /\ chainRet.err = Nil) =>
    chainRet.descs = <<PackerBootstrap(Len(chainLayers))>>

IsPrefix(a, b) == Len(a) <= Len(b) /\ \A i \in 1..Len(a) : a[i] = b[i]

\* What the gzip writer has written to cw after the chunks of stream were
\* written to it, before and after its Close.
Compressed(stream) ==
  IF stream = <<>> THEN <<>>
  ELSE <<GzipHeader>> \o [i \in 1..Len(stream) |-> Deflate(stream[i])]

CompressedClosed(stream) == Compressed(stream) \o GzipClose(Compressed(stream))

\* C16: every chunk the producer writes reaches the gzip writer and the
\* digest accumulator once each and in order: the accumulator has always
\* consumed a prefix of the merged stream and the compressor the same
\* chunks; at commit both have consumed the whole stream; the descriptor's
\* uncompressed-digest annotation is the digest of that stream and its digest
\* that of the compressed bytes.
C16_FanOut ==
  \A p \in Procs :
    /\ gpc[p] # "off" =>
         /\ IsPrefix(hashed[p], MergeStream(layers[p]))
         /\ cw[p].data \in {Compressed(hashed[p]),
                            CompressedClosed(hashed[p])}
         /\ mpc[p] = "copy" => cw[p].data = Compressed(hashed[p])
    /\ (mpc[p] = "commit" \/ PastCommit(p)) =>
         /\ hashed[p] = MergeStream(layers[p])
         /\ cw[p].data = CompressedClosed(hashed[p])
    /\ ret[p].line = 142 =>
         /\ ret[p].desc.Uncompressed = DigestOf(MergeStream(layers[p]))
         /\ ret[p].desc.Digest =
              DigestOf(CompressedClosed(MergeStream(layers[p])))
         /\ ret[p].desc.Uncompressed # ret[p].desc.Digest

\* C16 witness: a merge whose stream went through the pipe in two chunks or
\* more returned its descriptor.
C16_Witness ==
  \E p \in Procs :
    /\ ret[p].line = 142
    /\ Len(hashed[p]) >= 2
    /\ hashed[p][1] # hashed[p][2]

\* The chunks the producer has given to pw.Write: those whose Write has
\* returned and the one whose Write is under way.
Produced(p) == gi[p] + (IF gpc[p] = "write" THEN 1 ELSE 0)

\* C17: the pipe holds at most one pending write; while the consumer has not
\* taken a chunk the producer is blocked in the Write of that chunk; so what
\* is produced and not yet consumed is never more than that one chunk,
\* whatever the length of the merged stream.
C17_Backpressure ==
  \A p \in Procs :
    /\ Len(pipe[p].buf) <= 1
    /\ pipe[p].buf # <<>> =>
         /\ gpc[p] = "write"
         /\ pipe[p].buf[1] = MergeStream(layers[p])[gi[p] + 1]
    /\ (gpc[p] \in {"merge", "write"} /\ mpc[p] # "done") =>
         /\ Produced(p) - Len(hashed[p]) = Len(pipe[p].buf)
         /\ Produced(p) - Len(hashed[p]) <= 1

\* C17 witness: with a stream of two chunks or more, the producer is blocked
\* in the Write of the first while the consumer has not started to read.
C17_Witness ==
  \E p \in Procs :
    /\ Len(layers[p]) >= 2
    /\ gpc[p] = "write" /\ gi[p] = 0 /\ pipe[p].buf # <<>>
    /\ mpc[p] = "open"

\* C18: once mergeNydus has returned after starting the producer, the
\* producer is not left in a pipe write that nobody will read: there is no
\* state in which the call has returned and its producer is blocked in
\* pw.Write with the chunk still in the pipe (nothing reads or closes the
\* pipe after the return, so the producer would never end).
C18_ProducerNotLeftBlocked ==
  \A p \in Procs :
    ~(mpc[p] = "done" /\ gpc[p] = "write" /\ pipe[p].buf # <<>>)

\* C19: the producer never reads from a layer's reader after the reader was
\* closed: the readers are closed at return of mergeNydus only once the
\* producer is through with them.
C19_NoReadAfterClose == \A p \in Procs : ~staleRead[p]

\* A step of call p that executes the Commit of line 108.
CommitStep(p) == mpc[p] = "commit" /\ mpc'[p] # "commit"

\* C20: the commit is issued only after the pipe reported a clean end of
\* stream and the gzip writer was closed: at the commit step the producer
\* has ended, the write end is closed without error, nothing is left in the
\* pipe, and cw holds the complete compressed stream, trailer included, whose
\* digest is the one committed; a call that left the copy or the gzip close
\* with an error has issued no commit.
C20_CommitAfterCleanEOF ==
  /\ [][\A p \in Procs :
          CommitStep(p) =>
            /\ gpc[p] = "exit" /\ ~ProducerFailed(p)
            /\ pipe[p].closed = "eof" /\ pipe[p].buf = <<>>
            /\ cw[p].data = CompressedClosed(MergeStream(layers[p]))
            /\ \A b \in store' \ store :
                 b.digest = DigestOf(CompressedClosed(MergeStream(layers[p])))
       ]_vars
  /\ [](\A p \in Procs :
          /\ (mpc[p] = "done" /\ ret[p].line \in {101, 104}) =>
               commitErr[p] = Nil /\ cw[p].state # "committed"
          /\ mpc[p] \in {"idle", "getblob", "reader", "pipe", "open", "copy",
                         "gzclose"} =>
               commitErr[p] = Nil /\ cw[p].state # "committed")

\* C20 witness: a call whose stream had two chunks or more committed it, the
\* producer ended and the pipe closed cleanly.
C20_Witness ==
  \E p \in Procs :
    /\ cw[p].state = "committed" /\ commitErr[p] = Nil
    /\ Len(layers[p]) >= 2
    /\ \E b \in store : b.digest = DigestOf(cw[p].data)

====
